---- MODULE Spec2Model ----
(***************************************************************************)
(* The quiz-room coordinator of the backend server: the in-memory room     *)
(* table quizRooms, the socket.io handlers join_room, start_quiz,          *)
(* submit_answer and disconnect, the HTTP endpoint that creates a room,    *)
(* and startQuestion with its per-question setInterval countdown.          *)
(***************************************************************************)
EXTENDS Integers, Sequences, FiniteSets, Bags, TLC

\* ---------------------------------------------------------------- bounds
MaxQuestions == 2      \* longest question list a room is created with
MaxCreates == 1        \* successful POST /quiz/create requests
MaxPlayers == 1        \* roster entries over all rooms (join_room messages that find their room)
MaxStarts == 1         \* start_quiz messages that find their room
MaxSubmits == 2        \* submit_answer messages that reach a roster
\* the same caps for the runs of one room, SpecQuiz
RunQuestions == 2
RunPlayers == 2
RunStarts == 2
RunSubmits == 2
\* and for the runs of two rooms, SpecRooms
RoomQuestions == 1
RoomCreates == 2
RoomPlayers == 2
RoomStarts == 1
RoomSubmits == 1
\* and for the runs under fair countdowns, SpecLive
LiveQuestions == 1
LivePlayers == 1
LiveStarts == 1
LiveSubmits == 1

\* the countdown of one question: let timeLeft = 20
TimeBudget == 20

RoomIds == {"R1", "R2"}
Sockets == {"s1", "s2"}
Usernames == {"sam", "alex"}
Answers == {"a", "b"}

\* the question list of n questions; only correctAnswer is read by the server
Quiz(n) == [i \in 1..n |-> [correctAnswer |-> IF i % 2 = 1 THEN "a" ELSE "b"]]
QuestionLists == {Quiz(n) : n \in 0..MaxQuestions}
\* questionIndex of a submit_answer: in range, negative, or past the end
QIndices == (0 - 1)..MaxQuestions

VARIABLES
  quizRooms,   \* the Map roomId -> room; a room is [questions, hasPlayers, players]
  attached,    \* socket -> the socket.io rooms it has joined
  conn,        \* socket -> "new" | "open" | "closed"
  timers,      \* bag of live setInterval countdowns [roomId, index, timeLeft]
  out,         \* the events emitted by the last handler or callback, in order
  log,         \* roomId -> the quiz events broadcast to the room so far, in order
  submitted,   \* bag of <<roomId, socket, questionIndex>>: the submissions handled
  created,     \* number of rooms created
  crashed      \* an exception escaped a handler or a timer callback

vars == <<quizRooms, attached, conn, timers, out, log, submitted, created, crashed>>

\* ------------------------------------------------------------- helpers
NoIndex == 0 - 1

\* one emitted event: group is the room id of io.to(roomId).emit, or the socket
\* id of socket.emit; to is the set of connections it is delivered to
Event(type, group, to, index, players) ==
  [type |-> type, group |-> group, to |-> to, index |-> index, players |-> players]

\* io.emit in place of io.to(roomId).emit: every open connection is reached
MembersGlobal(att, r) == {s \in Sockets : conn[s] = "open"}

\* the sockets io.to(roomId) reaches
Members(att, r) == {s \in Sockets : r \in att[s]}

\* a leaderboard that lists only the players who have scored
SortDescScorers(ps) ==
  LET RECURSIVE Keep(_)
      Keep(qs) ==
        IF qs = <<>> THEN <<>>
        ELSE IF Head(qs).score > 0 THEN <<Head(qs)>> \o Keep(Tail(qs))
             ELSE Keep(Tail(qs))
      RECURSIVE Ins(_, _)
      Ins(sorted, p) ==
        IF sorted = <<>> THEN <<p>>
        ELSE IF Head(sorted).score >= p.score
             THEN <<Head(sorted)>> \o Ins(Tail(sorted), p)
             ELSE <<p>> \o sorted
      RECURSIVE Srt(_)
      Srt(qs) ==
        IF qs = <<>> THEN <<>>
        ELSE Ins(Srt(SubSeq(qs, 1, Len(qs) - 1)), qs[Len(qs)])
  IN Srt(Keep(ps))

\* Array.prototype.sort((a, b) => b.score - a.score): stable, descending
RECURSIVE InsertDesc(_, _)
InsertDesc(sorted, p) ==
  IF sorted = <<>> THEN <<p>>
  ELSE IF Head(sorted).score >= p.score
       THEN <<Head(sorted)>> \o InsertDesc(Tail(sorted), p)
       ELSE <<p>> \o sorted

RECURSIVE SortDesc(_)
SortDesc(ps) ==
  IF ps = <<>> THEN <<>>
  ELSE InsertDesc(SortDesc(SubSeq(ps, 1, Len(ps) - 1)), ps[Len(ps)])

\* find with a fallback: the first entry of the roster when the socket has none
FindPlayerOrFirst(ps, s) ==
  IF \E i \in 1..Len(ps) : ps[i].id = s
  THEN CHOOSE i \in 1..Len(ps) : ps[i].id = s /\ \A j \in 1..(i - 1) : ps[j].id # s
  ELSE IF Len(ps) > 0 THEN 1 ELSE 0

\* room.players.find(p => p.id === socket.id): position of the first match, 0 if none
FindPlayer(ps, s) ==
  IF \E i \in 1..Len(ps) : ps[i].id = s
  THEN CHOOSE i \in 1..Len(ps) : ps[i].id = s /\ \A j \in 1..(i - 1) : ps[j].id # s
  ELSE 0

\* the part of the state startQuestion reads and writes
Sys(rooms, tm, o, lg, cr) ==
  [rooms |-> rooms, timers |-> tm, out |-> o, log |-> lg, crashed |-> cr]

\* io.to(roomId).emit of a quiz event
Broadcast(st, att, r, type, index, players) ==
  [st EXCEPT !.out = Append(@, Event(type, r, Members(att, r), index, players)),
             !.log = [@ EXCEPT ![r] = Append(@, [type |-> type, index |-> index])]]

\* function startQuestion(roomId, index)
StartQuestion(st, att, r, index) ==
  IF r \notin DOMAIN st.rooms
  THEN [st EXCEPT !.crashed = TRUE]
  ELSE LET room == st.rooms[r] IN
    IF index >= Len(room.questions)
    THEN IF ~room.hasPlayers
         THEN [st EXCEPT !.crashed = TRUE]
         ELSE LET board == SortDesc(room.players) IN
              Broadcast([st EXCEPT !.rooms = [@ EXCEPT ![r].players = board]],
                        att, r, "quiz_ended", NoIndex, board)
    ELSE [Broadcast(st, att, r, "new_question", index, <<>>)
            EXCEPT !.timers = @ (+) SetToBag({[roomId |-> r, index |-> index,
                                               timeLeft |-> TimeBudget]})]

RECURSIVE SumOver(_, _)
SumOver(f, S) == IF S = {} THEN 0
                 ELSE LET x == CHOOSE y \in S : TRUE IN f[x] + SumOver(f, S \ {x})

Count(seq, type) == Cardinality({i \in 1..Len(seq) : seq[i].type = type})

\* roster entries, over all rooms
TotalPlayers == SumOver([r \in DOMAIN quizRooms |-> Len(quizRooms[r].players)], DOMAIN quizRooms)
\* quiz_started broadcasts, over all rooms
TotalStarts == SumOver([r \in RoomIds |-> Count(log[r], "quiz_started")], RoomIds)

\* ---------------------------------------------------------------- Init
Init ==
  /\ quizRooms = <<>>
  /\ attached = [s \in Sockets |-> {}]
  /\ conn = [s \in Sockets |-> "new"]
  /\ timers = EmptyBag
  /\ out = <<>>
  /\ log = [r \in RoomIds |-> <<>>]
  /\ submitted = EmptyBag
  /\ created = 0
  /\ crashed = FALSE

\* ------------------------------------------------------------- actions
\* io.on("connection")
Connect(s) ==
  /\ ~crashed
  /\ conn[s] = "new"
  /\ conn' = [conn EXCEPT ![s] = "open"]
  /\ out' = <<>>
  /\ UNCHANGED <<quizRooms, attached, timers, log, submitted, created, crashed>>

\* disconnect that also takes the connection's players out of every roster
DisconnectDropsPlayer(s) ==
  /\ ~crashed
  /\ conn[s] = "open"
  /\ conn' = [conn EXCEPT ![s] = "closed"]
  /\ attached' = [attached EXCEPT ![s] = {}]
  /\ quizRooms' = [r \in DOMAIN quizRooms |->
                     [quizRooms[r] EXCEPT !.players = SelectSeq(@, LAMBDA p : p.id # s)]]
  /\ out' = <<>>
  /\ UNCHANGED <<timers, log, submitted, created, crashed>>

\* socket.on("disconnect"): socket.io takes the socket out of its rooms; the
\* handler itself only logs
Disconnect(s) ==
  /\ ~crashed
  /\ conn[s] = "open"
  /\ conn' = [conn EXCEPT ![s] = "closed"]
  /\ attached' = [attached EXCEPT ![s] = {}]
  /\ out' = <<>>
  /\ UNCHANGED <<quizRooms, timers, log, submitted, created, crashed>>

\* the questions field of the body of POST /quiz/create: a list, or absent, or
\* a value that is no array (a string)
ListBody(qs) == [kind |-> "list", items |-> qs]
Bodies == {ListBody(qs) : qs \in QuestionLists}
          \cup {[kind |-> k, items |-> <<>>] : k \in {"missing", "string"}}

\* !questions || !Array.isArray(questions)
InvalidQuestions(q) == q.kind = "missing" \/ q.kind # "list"

\* res.status(400).json({error}) and res.json({roomId, url}): sent to the HTTP
\* client, to no socket
HttpResponse(status, roomId) == Event("response", roomId, {}, status, <<>>)

\* the same check without Array.isArray
CreateRoomAnyValue(r, q) ==
  /\ ~crashed
  /\ IF q.kind = "missing"
     THEN /\ out' = <<HttpResponse(400, "")>>
          /\ UNCHANGED <<quizRooms, created, log, submitted>>
     ELSE /\ quizRooms' = [x \in (DOMAIN quizRooms) \cup {r} |->
                             IF x = r THEN [questions |-> q.items, hasPlayers |-> FALSE,
                                            players |-> <<>>]
                             ELSE quizRooms[x]]
          /\ created' = created + 1
          /\ out' = <<HttpResponse(200, r)>>
          /\ log' = [log EXCEPT ![r] = <<>>]
          /\ submitted' = [k \in {x \in DOMAIN submitted : x[1] # r} |-> submitted[k]]
  /\ UNCHANGED <<attached, conn, timers, crashed>>

\* app.post("/quiz/create"): the id is random and is not compared with the ids
\* in use
CreateRoom(r, q) ==
  /\ ~crashed
  /\ IF InvalidQuestions(q)
     THEN /\ out' = <<HttpResponse(400, "")>>
          /\ UNCHANGED <<quizRooms, created, log, submitted>>
     ELSE /\ quizRooms' = [x \in (DOMAIN quizRooms) \cup {r} |->
                             IF x = r THEN [questions |-> q.items, hasPlayers |-> FALSE,
                                            players |-> <<>>]
                             ELSE quizRooms[x]]
          /\ created' = created + 1
          /\ out' = <<HttpResponse(200, r)>>
          /\ log' = [log EXCEPT ![r] = <<>>]
          /\ submitted' = [k \in {x \in DOMAIN submitted : x[1] # r} |-> submitted[k]]
  /\ UNCHANGED <<attached, conn, timers, crashed>>

\* join_room with socket.join(roomId) moved above the lookup of the room
JoinRoomAttachFirst(s, r, u) ==
  /\ ~crashed
  /\ conn[s] = "open"
  /\ attached' = [attached EXCEPT ![s] = @ \cup {r}]
  /\ IF r \notin DOMAIN quizRooms
     THEN /\ out' = <<Event("error", s, {s}, NoIndex, <<>>)>>
          /\ UNCHANGED quizRooms
     ELSE LET roster == Append(quizRooms[r].players,
                               [id |-> s, username |-> u, score |-> 0,
                                joinNo |-> Len(quizRooms[r].players) + 1])
          IN /\ quizRooms' = [quizRooms EXCEPT ![r].hasPlayers = TRUE, ![r].players = roster]
             /\ out' = <<Event("player_joined", r, Members(attached', r), NoIndex, roster)>>
  /\ UNCHANGED <<conn, timers, log, submitted, created, crashed>>

\* join_room with the player_joined broadcast moved above the push: the
\* roster is sent as it was before the join
JoinRoomEmitBeforePush(s, r, u) ==
  /\ ~crashed
  /\ conn[s] = "open"
  /\ IF r \notin DOMAIN quizRooms
     THEN /\ out' = <<Event("error", s, {s}, NoIndex, <<>>)>>
          /\ UNCHANGED <<quizRooms, attached>>
     ELSE /\ attached' = [attached EXCEPT ![s] = @ \cup {r}]
          /\ LET roster == Append(quizRooms[r].players,
                                  [id |-> s, username |-> u, score |-> 0,
                                   joinNo |-> Len(quizRooms[r].players) + 1])
             IN /\ quizRooms' = [quizRooms EXCEPT ![r].hasPlayers = TRUE, ![r].players = roster]
                /\ out' = <<Event("player_joined", r, Members(attached', r), NoIndex,
                                  quizRooms[r].players)>>
  /\ UNCHANGED <<conn, timers, log, submitted, created, crashed>>

\* socket.on("join_room")
JoinRoom(s, r, u) ==
  /\ ~crashed
  /\ conn[s] = "open"
  /\ IF r \notin DOMAIN quizRooms
     THEN /\ out' = <<Event("error", s, {s}, NoIndex, <<>>)>>
          /\ UNCHANGED <<quizRooms, attached>>
     ELSE /\ attached' = [attached EXCEPT ![s] = @ \cup {r}]
          /\ LET roster == Append(quizRooms[r].players,
                                  [id |-> s, username |-> u, score |-> 0,
                                   joinNo |-> Len(quizRooms[r].players) + 1])
             IN /\ quizRooms' = [quizRooms EXCEPT ![r].hasPlayers = TRUE, ![r].players = roster]
                /\ out' = <<Event("player_joined", r, Members(attached', r), NoIndex, roster)>>
  /\ UNCHANGED <<conn, timers, log, submitted, created, crashed>>

\* start_quiz without the return for a room that is not in the table
StartQuizNoLookup(s, r) ==
  /\ ~crashed
  /\ conn[s] = "open"
  /\ LET st == StartQuestion(
                 Broadcast(Sys(quizRooms, timers, <<>>, log, crashed),
                           attached, r, "quiz_started", NoIndex, <<>>),
                 attached, r, 0)
     IN /\ quizRooms' = st.rooms
        /\ timers' = st.timers
        /\ out' = st.out
        /\ log' = st.log
        /\ crashed' = st.crashed
  /\ UNCHANGED <<attached, conn, submitted, created>>

\* socket.on("start_quiz")
StartQuiz(s, r) ==
  /\ ~crashed
  /\ conn[s] = "open"
  /\ IF r \notin DOMAIN quizRooms
     THEN /\ out' = <<>>
          /\ UNCHANGED <<quizRooms, log, timers, crashed>>
     ELSE LET st == StartQuestion(
                      Broadcast(Sys(quizRooms, timers, <<>>, log, crashed),
                                attached, r, "quiz_started", NoIndex, <<>>),
                      attached, r, 0)
          IN /\ quizRooms' = st.rooms
             /\ timers' = st.timers
             /\ out' = st.out
             /\ log' = st.log
             /\ crashed' = st.crashed
  /\ UNCHANGED <<attached, conn, submitted, created>>

\* the point goes to the first correct answer only: a player scores when no
\* other entry of the roster is ahead of them
ScoredFirstOnly(rooms, s, r, qi, ans) ==
  LET room == rooms[r]
      p == FindPlayer(room.players, s)
  IN IF /\ p # 0
        /\ qi >= 0 /\ qi < Len(room.questions)
        /\ room.questions[qi + 1].correctAnswer = ans
        /\ \A i \in 1..Len(room.players) : room.players[i].score <= room.players[p].score
     THEN [rooms EXCEPT ![r].players[p].score = @ + 1]
     ELSE rooms

\* an index outside the list is moved to the nearest question of the list
ScoredClamped(rooms, s, r, qi, ans) ==
  LET room == rooms[r]
      p == FindPlayer(room.players, s)
      k == IF qi < 0 THEN 0
           ELSE IF qi >= Len(room.questions) THEN Len(room.questions) - 1 ELSE qi
  IN IF /\ p # 0
        /\ Len(room.questions) > 0
        /\ room.questions[k + 1].correctAnswer = ans
     THEN [rooms EXCEPT ![r].players[p].score = @ + 1]
     ELSE rooms

\* the room table after submit_answer has looked up the player of socket s in
\* the roster of room r and compared the answer
Scored(rooms, s, r, qi, ans) ==
  LET room == rooms[r]
      p == FindPlayer(room.players, s)
  IN IF /\ p # 0
        /\ qi >= 0 /\ qi < Len(room.questions)
        /\ room.questions[qi + 1].correctAnswer = ans
     THEN [rooms EXCEPT ![r].players[p].score = @ + 1]
     ELSE rooms

\* socket.on("submit_answer")
SubmitAnswer(s, r, qi, ans) ==
  /\ ~crashed
  /\ conn[s] = "open"
  /\ out' = <<>>
  /\ IF r \notin DOMAIN quizRooms
     THEN UNCHANGED <<quizRooms, submitted, crashed>>
     ELSE LET room == quizRooms[r] IN
          IF ~room.hasPlayers
          THEN /\ crashed' = TRUE
               /\ UNCHANGED <<quizRooms, submitted>>
          ELSE /\ submitted' = submitted (+) SetToBag({<<r, s, qi>>})
               /\ quizRooms' = Scored(quizRooms, s, r, qi, ans)
               /\ UNCHANGED crashed
  /\ UNCHANGED <<attached, conn, timers, log, created>>

\* the setInterval callback of one countdown
Tick(t) ==
  /\ ~crashed
  /\ BagIn(t, timers)
  /\ IF t.timeLeft - 1 <= 0
     THEN LET st == StartQuestion(Sys(quizRooms, timers (-) SetToBag({t}), <<>>, log, crashed),
                                  attached, t.roomId, t.index + 1)
          IN /\ quizRooms' = st.rooms
             /\ timers' = st.timers
             /\ out' = st.out
             /\ log' = st.log
             /\ crashed' = st.crashed
     ELSE /\ timers' = (timers (-) SetToBag({t})) (+) SetToBag({[t EXCEPT !.timeLeft = @ - 1]})
          /\ out' = <<>>
          /\ UNCHANGED <<quizRooms, log, crashed>>
  /\ UNCHANGED <<attached, conn, submitted, created>>

\* ------------------------------------------------------- specifications
\* every handler with every input, each kind of message capped
Next ==
  \/ \E s \in Sockets : Connect(s)
  \/ \E s \in Sockets : Disconnect(s)
  \/ \E r \in RoomIds, q \in Bodies :
       (~InvalidQuestions(q) => created < MaxCreates) /\ CreateRoom(r, q)
  \/ \E s \in Sockets, r \in RoomIds, u \in Usernames :
       (r \in DOMAIN quizRooms => TotalPlayers < MaxPlayers) /\ JoinRoom(s, r, u)
  \/ \E s \in Sockets, r \in RoomIds :
       TotalStarts < MaxStarts /\ StartQuiz(s, r)
  \/ \E s \in Sockets, r \in RoomIds, qi \in QIndices, ans \in Answers :
       BagCardinality(submitted) < MaxSubmits /\ SubmitAnswer(s, r, qi, ans)
  \/ \E t \in BagToSet(timers) : Tick(t)

Spec == Init /\ [][Next]_vars

\* one room, "R1", played by both connections under one username, with more
\* messages of each kind
RunLists == {Quiz(n) : n \in 0..RunQuestions}
RunIndices == 0..(RunQuestions - 1)

NextQuiz ==
  \/ \E s \in Sockets : Connect(s)
  \/ \E qs \in RunLists :
       created = 0 /\ CreateRoom("R1", ListBody(qs))
  \/ \E s \in Sockets :
       ("R1" \in DOMAIN quizRooms => TotalPlayers < RunPlayers) /\ JoinRoom(s, "R1", "sam")
  \/ \E s \in Sockets :
       TotalStarts < RunStarts /\ StartQuiz(s, "R1")
  \/ \E s \in Sockets, qi \in RunIndices, ans \in Answers :
       BagCardinality(submitted) < RunSubmits /\ SubmitAnswer(s, "R1", qi, ans)
  \/ \E t \in BagToSet(timers) : Tick(t)

SpecQuiz == Init /\ [][NextQuiz]_vars

\* ------------------------------------------------- what the claims speak of
\* The server keeps no state field and no current index: both are read off the
\* quiz events the room has been sent.
RoomState(r) ==
  IF Count(log[r], "quiz_ended") > 0 THEN "ENDED"
  ELSE IF Count(log[r], "quiz_started") > 0 THEN "PLAYING"
  ELSE "LOBBY"

\* the indices of the new_question broadcasts of a room, in order
RECURSIVE Indices(_)
Indices(seq) ==
  IF seq = <<>> THEN <<>>
  ELSE IF Head(seq).type = "new_question"
       THEN <<Head(seq).index>> \o Indices(Tail(seq))
       ELSE Indices(Tail(seq))

\* the last index broadcast by new_question, NoIndex before the first
CurrentIndex(r) ==
  LET is == Indices(log[r]) IN IF is = <<>> THEN NoIndex ELSE is[Len(is)]

\* the score of each roster entry of room r in the table rooms, by join number
ScoreByJoin(rooms, r) ==
  [n \in 1..Len(rooms[r].players) |->
     (CHOOSE p \in {rooms[r].players[i] : i \in 1..Len(rooms[r].players)} : p.joinNo = n).score]

\* the live countdowns of room r
TimersOf(r) == SumOver([t \in BagToSet(timers) |-> IF t.roomId = r THEN CopiesIn(t, timers) ELSE 0],
                       BagToSet(timers))

\* ------------------------------------------------------------------ claims
\* C1: in every reachable state every player's score is between 0 and the
\* number of questions of the room.
ScoreWithinQuestions ==
  \A r \in DOMAIN quizRooms : \A i \in 1..Len(quizRooms[r].players) :
    /\ 0 <= quizRooms[r].players[i].score
    /\ quizRooms[r].players[i].score <= Len(quizRooms[r].questions)

\* C2: a submit_answer from a connection that has already submitted for the
\* same question index of the room changes no score of the room.
SecondSubmissionIgnored ==
  [][\A s \in Sockets, r \in RoomIds, qi \in QIndices, ans \in Answers :
       (/\ r \in DOMAIN quizRooms
        /\ BagIn(<<r, s, qi>>, submitted)
        /\ SubmitAnswer(s, r, qi, ans))
       => ScoreByJoin(quizRooms', r) = ScoreByJoin(quizRooms, r)]_vars

\* C3: while a question is counted down, a submit_answer for another question
\* index changes no score of the room.
StaleSubmissionIgnored ==
  [][\A s \in Sockets, r \in RoomIds, qi \in QIndices, ans \in Answers :
       (/\ r \in DOMAIN quizRooms
        /\ CurrentIndex(r) # NoIndex
        /\ qi # CurrentIndex(r)
        /\ SubmitAnswer(s, r, qi, ans))
       => ScoreByJoin(quizRooms', r) = ScoreByJoin(quizRooms, r)]_vars

\* C4: quiz_ended is broadcast to a room at most once, and exactly once when
\* the room was started and none of its countdowns is left (the server running).
QuizEndedOnce ==
  \A r \in RoomIds :
    /\ Count(log[r], "quiz_ended") <= 1
    /\ (~crashed /\ Count(log[r], "quiz_started") > 0 /\ TimersOf(r) = 0)
         => Count(log[r], "quiz_ended") = 1

\* C5: a start_quiz for a room that has left LOBBY broadcasts nothing and starts
\* no countdown, and the state of a room never moves back.
StateRank(st) == IF st = "LOBBY" THEN 0 ELSE IF st = "PLAYING" THEN 1 ELSE 2

StartOnlyFromLobby ==
  [][/\ \A s \in Sockets, r \in RoomIds :
          (r \in DOMAIN quizRooms /\ RoomState(r) # "LOBBY" /\ StartQuiz(s, r))
          => (out' = <<>> /\ log' = log /\ timers' = timers)
     /\ \A r \in RoomIds :
          (r \in DOMAIN quizRooms /\ r \in DOMAIN quizRooms' /\ created' = created)
          => StateRank(RoomState(r)') >= StateRank(RoomState(r))]_vars

\* C6: a room never has more than one live countdown.
OneTimerPerRoom == \A r \in RoomIds : TimersOf(r) <= 1

\* C7: the indices of the new_question broadcasts of a room never decrease and
\* stay below the number of its questions.
IndexMonotone ==
  \A r \in DOMAIN quizRooms :
    LET is == Indices(log[r]) IN
      /\ \A i \in 1..Len(is) : is[i] < Len(quizRooms[r].questions)
      /\ \A i \in 1..(Len(is) - 1) : is[i] <= is[i + 1]

\* C8: the quiz events of a room are a prefix of quiz_started, new_question 0,
\* ..., new_question n-1, quiz_ended, and quiz_ended is sent with no countdown
\* of the room left.
ExpectedEvents(n) ==
  <<[type |-> "quiz_started", index |-> NoIndex]>>
  \o [i \in 1..n |-> [type |-> "new_question", index |-> i - 1]]
  \o <<[type |-> "quiz_ended", index |-> NoIndex]>>

BroadcastOrder ==
  \A r \in DOMAIN quizRooms :
    LET want == ExpectedEvents(Len(quizRooms[r].questions)) IN
      /\ Len(log[r]) <= Len(want)
      /\ log[r] = SubSeq(want, 1, Len(log[r]))
      /\ Count(log[r], "quiz_ended") > 0 => TimersOf(r) = 0

\* C9: the leaderboard of every quiz_ended is in descending order of score, and
\* players of equal score are in the order in which they joined.
LeaderboardOrder ==
  \A e \in 1..Len(out) :
    out[e].type = "quiz_ended" =>
      \A i \in 1..(Len(out[e].players) - 1) :
        LET a == out[e].players[i]
            b == out[e].players[i + 1]
        IN \/ a.score > b.score
           \/ a.score = b.score /\ a.joinNo < b.joinNo

\* C10: a submit_answer for a room that is not PLAYING (not started yet, or
\* ended) changes no score of the room.
ScoredOnlyWhilePlaying ==
  [][\A s \in Sockets, r \in RoomIds, qi \in QIndices, ans \in Answers :
       (/\ r \in DOMAIN quizRooms
        /\ RoomState(r) # "PLAYING"
        /\ SubmitAnswer(s, r, qi, ans))
       => ScoreByJoin(quizRooms', r) = ScoreByJoin(quizRooms, r)]_vars

\* C11: a join_room naming a room id that is not in the table emits one error
\* event to the joining connection only, attaches it to no room, broadcasts
\* nothing and leaves every room, quiz event and countdown as it was.
JoinMissingRoomOnlyErrors ==
  [][\A s \in Sockets, r \in RoomIds, u \in Usernames :
       (r \notin DOMAIN quizRooms /\ JoinRoom(s, r, u))
       => /\ out' = <<Event("error", s, {s}, NoIndex, <<>>)>>
          /\ attached' = attached
          /\ quizRooms' = quizRooms
          /\ log' = log
          /\ timers' = timers]_vars

\* an error has been sent to a connection that is in no room, while another
\* room exists and has a player
JoinMissingRoomSeen ==
  \E s \in Sockets :
    /\ out = <<Event("error", s, {s}, NoIndex, <<>>)>>
    /\ attached[s] = {}
    /\ \E r \in DOMAIN quizRooms : Len(quizRooms[r].players) > 0

\* C12: a join_room that finds its room adds one roster entry with score 0 for
\* a connection that has none there, whatever the username, and changes nothing
\* in the roster for a connection that already has one: one entry a connection.
HasPlayer(r, s) == \E i \in 1..Len(quizRooms[r].players) : quizRooms[r].players[i].id = s

OnePlayerPerConnection ==
  [][\A s \in Sockets, r \in RoomIds, u \in Usernames :
       (r \in DOMAIN quizRooms /\ JoinRoom(s, r, u))
       => LET before == quizRooms[r].players
              after == quizRooms'[r].players
          IN IF HasPlayer(r, s)
             THEN after = before
             ELSE /\ Len(after) = Len(before) + 1
                  /\ SubSeq(after, 1, Len(before)) = before
                  /\ after[Len(after)].id = s
                  /\ after[Len(after)].username = u
                  /\ after[Len(after)].score = 0]_vars

\* C13: no message and no timer expiry on an existing room ends in an exception
\* that escapes its handler.
NoUnhandledFailure == ~crashed

\* C14: a start_quiz for a room with an empty question list broadcasts
\* quiz_started and at once quiz_ended with the whole roster (the empty list for
\* an empty roster), starts no countdown and broadcasts no new_question.
EmptyQuizEndsAtOnce ==
  [][\A s \in Sockets, r \in RoomIds :
       (r \in DOMAIN quizRooms /\ quizRooms[r].questions = <<>> /\ StartQuiz(s, r))
       => /\ ~crashed'
          /\ Len(out') = 2
          /\ out'[1].type = "quiz_started"
          /\ out'[2].type = "quiz_ended"
          /\ Len(out'[2].players) = Len(quizRooms[r].players)
          /\ timers' = timers
          /\ Count(log'[r], "new_question") = 0]_vars

\* C15: join_room, start_quiz and submit_answer naming a room id that is not in
\* the table change nothing and send nothing to any other connection; of the
\* three only join_room sends the error event to the sender, start_quiz and
\* submit_answer send no event at all.
Quiet == /\ quizRooms' = quizRooms
         /\ attached' = attached
         /\ timers' = timers
         /\ log' = log
         /\ crashed' = crashed

CreateValidatesQuestions ==
  [][\A r \in RoomIds, q \in Bodies :
       CreateRoom(r, q) =>
         IF q.kind # "list"
         THEN /\ out' = <<HttpResponse(400, "")>>
              /\ quizRooms' = quizRooms
         ELSE /\ out' = <<HttpResponse(200, r)>>
              /\ r \in DOMAIN quizRooms'
              /\ quizRooms'[r].questions = q.items]_vars

\* a request has been refused after a room with an empty list was created
CreateRefusedSeen ==
  /\ out = <<HttpResponse(400, "")>>
  /\ \E r \in DOMAIN quizRooms : quizRooms[r].questions = <<>>

\* C18: a disconnect changes no room (every roster entry stays, with its
\* score), and every quiz_ended lists every entry of the roster, those of
\* closed connections too.
DisconnectKeepsRoster ==
  [][/\ \A s \in Sockets : Disconnect(s) => quizRooms' = quizRooms
     /\ \A e \in 1..Len(out') :
          out'[e].type = "quiz_ended" =>
            \A i \in 1..Len(quizRooms[out'[e].group].players) :
              \E j \in 1..Len(out'[e].players) :
                out'[e].players[j] = quizRooms[out'[e].group].players[i]]_vars

\* a quiz_ended lists, with the point it scored, a player whose connection is
\* closed
ClosedPlayerOnLeaderboard ==
  \E e \in 1..Len(out) :
    /\ out[e].type = "quiz_ended"
    /\ \E j \in 1..Len(out[e].players) :
         /\ conn[out[e].players[j].id] = "closed"
         /\ out[e].players[j].score = 1

\* ------------------------------------------------------------ two rooms
\* both room ids, up to two creates and two joins, one username, question
\* lists of at most RoomQuestions questions, one start and one submission
RoomLists == {Quiz(n) : n \in 0..RoomQuestions}
RoomIndices == 0..RoomQuestions

NextRooms ==
  \/ \E s \in Sockets : Connect(s)
  \/ \E s \in Sockets : Disconnect(s)
  \/ \E r \in RoomIds, qs \in RoomLists :
       created < RoomCreates /\ CreateRoom(r, ListBody(qs))
  \/ \E s \in Sockets, r \in RoomIds :
       (r \in DOMAIN quizRooms => TotalPlayers < RoomPlayers) /\ JoinRoom(s, r, "sam")
  \/ \E s \in Sockets, r \in RoomIds :
       TotalStarts < RoomStarts /\ StartQuiz(s, r)
  \/ \E s \in Sockets, r \in RoomIds, qi \in RoomIndices, ans \in Answers :
       BagCardinality(submitted) < RoomSubmits /\ SubmitAnswer(s, r, qi, ans)
  \/ \E t \in BagToSet(timers) : Tick(t)

SpecRooms == Init /\ [][NextRooms]_vars

\* C16: a successful create request never replaces a room that is already in
\* the registry: every room stored before the request is stored unchanged,
\* with its questions, roster and scores, after it.
CreateKeepsRooms ==
  [][created' = created + 1 =>
       \A r \in DOMAIN quizRooms :
         r \in DOMAIN quizRooms' /\ quizRooms'[r] = quizRooms[r]]_vars

\* C19: every room broadcast of room R goes to exactly the connections that
\* are attached to R when it is sent, so a connection attached only to
\* another room receives none of R's events.
RoomEvents == {"player_joined", "quiz_started", "new_question", "quiz_ended"}

RoomScopedDelivery ==
  \A e \in 1..Len(out) :
    out[e].type \in RoomEvents =>
      /\ \A s \in Sockets : s \in out[e].to <=> out[e].group \in attached[s]
      /\ \A s \in Sockets :
           out[e].group \notin attached[s] => s \notin out[e].to

OtherRoomNotReached ==
  /\ attached["s2"] = {"R2"}
  /\ conn["s2"] = "open"
  /\ \E e \in 1..Len(out) :
       /\ out[e].type = "new_question"
       /\ out[e].group = "R1"
       /\ out[e].to = {"s1"}

\* C20: a connection is attached to at most one room at any time.
AtMostOneRoom == \A s \in Sockets : Cardinality(attached[s]) <= 1

\* ------------------------------------------------------ fair countdowns
\* one room, "R1"; the event loop runs the callback of every live setInterval
\* again and again, so the countdowns are weakly fair
LiveLists == {Quiz(n) : n \in 0..LiveQuestions}
LiveIndices == 0..LiveQuestions

NextLive ==
  \/ \E s \in Sockets : Connect(s)
  \/ \E s \in Sockets : Disconnect(s)
  \/ \E qs \in LiveLists :
       created = 0 /\ CreateRoom("R1", ListBody(qs))
  \/ \E s \in Sockets :
       ("R1" \in DOMAIN quizRooms => TotalPlayers < LivePlayers) /\ JoinRoom(s, "R1", "sam")
  \/ \E s \in Sockets :
       TotalStarts < LiveStarts /\ StartQuiz(s, "R1")
  \/ \E s \in Sockets, qi \in LiveIndices, ans \in Answers :
       BagCardinality(submitted) < LiveSubmits /\ SubmitAnswer(s, "R1", qi, ans)
  \/ \E t \in BagToSet(timers) : Tick(t)

SpecLive == Init /\ [][NextLive]_vars /\ WF_vars(\E t \in BagToSet(timers) : Tick(t))

\* C21: once quiz_started has been broadcast to a room, quiz_ended is
\* eventually broadcast to it, and by then every question of the room has been
\* broadcast exactly once.
QuizEventuallyEnds ==
  /\ \A r \in RoomIds :
       (Count(log[r], "quiz_started") > 0) ~> (Count(log[r], "quiz_ended") > 0)
  /\ [](\A r \in DOMAIN quizRooms :
          Count(log[r], "quiz_ended") > 0 =>
            Count(log[r], "new_question") = Len(quizRooms[r].questions))

\* C22: a join_room that finds its room broadcasts one player_joined to the
\* room; it carries the stored roster after the join: every earlier entry
\* with its current score, followed by the entry of the joining connection
\* with score 0.
JoinBroadcastsRoster ==
  [][\A s \in Sockets, r \in RoomIds, u \in Usernames :
       (r \in DOMAIN quizRooms /\ JoinRoom(s, r, u)) =>
         /\ Len(out') = 1
         /\ out'[1].type = "player_joined"
         /\ out'[1].group = r
         /\ s \in out'[1].to
         /\ out'[1].players = quizRooms'[r].players
         /\ Len(out'[1].players) = Len(quizRooms[r].players) + 1
         /\ \A i \in 1..Len(quizRooms[r].players) :
              out'[1].players[i] = quizRooms[r].players[i]
         /\ LET me == out'[1].players[Len(out'[1].players)]
            IN me.id = s /\ me.username = u /\ me.score = 0]_vars

RosterWithScoreBroadcast ==
  /\ Len(out) = 1
  /\ out[1].type = "player_joined"
  /\ Len(out[1].players) = 2
  /\ out[1].players[1].id = "s1" /\ out[1].players[1].score = 1
  /\ out[1].players[2].id = "s2" /\ out[1].players[2].score = 0

\* C23: the interval of a question is exactly TimeBudget ticks of its
\* countdown. A tick before the last one only counts down; the last tick
\* broadcasts new_question of the next index or quiz_ended to the room, and at
\* that moment no countdown of the same question of the room is still running;
\* no other message touches a running countdown.
AdvanceOf(t) ==
  IF t.index + 1 >= Len(quizRooms[t.roomId].questions)
  THEN [type |-> "quiz_ended", index |-> NoIndex]
  ELSE [type |-> "new_question", index |-> t.index + 1]

QuestionIntervalExact ==
  [][/\ \A t \in BagToSet(timers) :
          Tick(t) =>
            IF t.timeLeft > 1
            THEN log' = log
            ELSE /\ t.timeLeft = 1
                 /\ log'[t.roomId] = Append(log[t.roomId], AdvanceOf(t))
                 /\ \A u \in BagToSet(timers') :
                      ~(u.roomId = t.roomId /\ u.index = t.index)
     /\ (\A t \in BagToSet(timers) : ~Tick(t)) =>
          /\ timers \sqsubseteq timers'
          /\ \A u \in BagToSet(timers') :
               CopiesIn(u, timers') > CopiesIn(u, timers) => u.timeLeft = TimeBudget]_vars

\* C24: a submit_answer changes at most the score of one roster entry of the
\* sending connection, by +1, and only when the answer is the correctAnswer
\* of the question at the submitted index; the other scores, the rosters, the
\* question lists and the countdowns are as before and keep running.
SubmitChangesOneScore ==
  [][\A s \in Sockets, r \in RoomIds, qi \in QIndices, ans \in Answers :
       SubmitAnswer(s, r, qi, ans) =>
         /\ timers' = timers
         /\ crashed' = crashed
         /\ \/ quizRooms' = quizRooms
            \/ /\ r \in DOMAIN quizRooms
               /\ qi >= 0 /\ qi < Len(quizRooms[r].questions)
               /\ quizRooms[r].questions[qi + 1].correctAnswer = ans
               /\ \E p \in 1..Len(quizRooms[r].players) :
                    /\ quizRooms[r].players[p].id = s
                    /\ quizRooms' = [quizRooms EXCEPT ![r].players[p].score = @ + 1]]_vars

\* C25: submissions of two different players of a room for the same question
\* commute: handled in either order they leave the same room table, and when
\* both answers are correct both players have gained a point.
Correct(r, qi, ans) ==
  /\ qi >= 0 /\ qi < Len(quizRooms[r].questions)
  /\ quizRooms[r].questions[qi + 1].correctAnswer = ans

SubmissionsCommute ==
  \A r \in DOMAIN quizRooms :
    \A s1 \in Sockets, s2 \in Sockets, qi \in QIndices, a1 \in Answers, a2 \in Answers :
      (/\ s1 # s2
       /\ HasPlayer(r, s1)
       /\ HasPlayer(r, s2)) =>
        LET first == Scored(Scored(quizRooms, s1, r, qi, a1), s2, r, qi, a2)
            second == Scored(Scored(quizRooms, s2, r, qi, a2), s1, r, qi, a1)
            p1 == FindPlayer(quizRooms[r].players, s1)
            p2 == FindPlayer(quizRooms[r].players, s2)
        IN /\ first = second
           /\ (Correct(r, qi, a1) /\ Correct(r, qi, a2)) =>
                /\ first[r].players[p1].score = quizRooms[r].players[p1].score + 1
                /\ first[r].players[p2].score = quizRooms[r].players[p2].score + 1

BothCorrectBothScored ==
  /\ "R1" \in DOMAIN quizRooms
  /\ BagIn(<<"R1", "s1", 0>>, submitted)
  /\ BagIn(<<"R1", "s2", 0>>, submitted)
  /\ Len(quizRooms["R1"].players) = 2
  /\ \A i \in 1..2 : quizRooms["R1"].players[i].score = 1

\* C26: in every reachable state the stored roster of every room lists its
\* players in the order in which they joined.
RosterInJoinOrder ==
  \A r \in DOMAIN quizRooms : \A i \in 1..Len(quizRooms[r].players) :
    quizRooms[r].players[i].joinNo = i

\* C27: a submit_answer that names an existing room whose roster has no entry
\* of the sending connection leaves every score of every room as it was and
\* emits no event.
OutsiderSubmissionIgnored ==
  [][\A s \in Sockets, r \in RoomIds, qi \in QIndices, ans \in Answers :
       (/\ r \in DOMAIN quizRooms
        /\ \A i \in 1..Len(quizRooms[r].players) : quizRooms[r].players[i].id # s
        /\ SubmitAnswer(s, r, qi, ans))
       => /\ out' = <<>>
          /\ DOMAIN quizRooms' = DOMAIN quizRooms
          /\ \A x \in DOMAIN quizRooms :
               ScoreByJoin(quizRooms', x) = ScoreByJoin(quizRooms, x)]_vars

OutsiderSubmitted ==
  /\ "R1" \in DOMAIN quizRooms
  /\ Len(quizRooms["R1"].questions) > 0
  /\ Len(quizRooms["R1"].players) = 1
  /\ quizRooms["R1"].players[1].id = "s1"
  /\ BagIn(<<"R1", "s2", 0>>, submitted)

\* C28: rooms are isolated: a join_room, start_quiz or submit_answer that
\* names room A, and a tick of a countdown of room A, leave the roster and
\* scores, the broadcast questions and the running countdowns of every other
\* room B as they were.
CountdownsOf(r) ==
  IF crashed THEN EmptyBag
  ELSE [t \in {u \in BagToSet(timers) : u.roomId = r} |-> CopiesIn(t, timers)]

Untouched(b) ==
  /\ b \in DOMAIN quizRooms'
  /\ quizRooms'[b] = quizRooms[b]
  /\ log'[b] = log[b]
  /\ CountdownsOf(b)' = CountdownsOf(b)

RoomsIsolated ==
  [][\A a \in RoomIds, b \in DOMAIN quizRooms :
       (/\ a # b
        /\ \/ \E s \in Sockets, u \in Usernames : JoinRoom(s, a, u)
           \/ \E s \in Sockets : StartQuiz(s, a)
           \/ \E s \in Sockets, qi \in QIndices, ans \in Answers : SubmitAnswer(s, a, qi, ans)
           \/ \E t \in BagToSet(timers) : t.roomId = a /\ Tick(t))
       => Untouched(b)]_vars

\* C29: the leaderboard of every quiz_ended is a permutation of the roster
\* the room has when the quiz ends: it has the same length, and every entry,
\* with the score it has at that moment, occurs in both the same number of
\* times.
Occurrences(seq, x) == Cardinality({i \in 1..Len(seq) : seq[i] = x})

LeaderboardIsPermutation ==
  [][\A e \in 1..Len(out') :
       out'[e].type = "quiz_ended" =>
         LET board == out'[e].players
             roster == quizRooms[out'[e].group].players
         IN /\ Len(board) = Len(roster)
            /\ \A i \in 1..Len(roster) :
                 Occurrences(board, roster[i]) = Occurrences(roster, roster[i])]_vars

LeaderboardReordered ==
  \E e \in 1..Len(out) :
    /\ out[e].type = "quiz_ended"
    /\ Len(out[e].players) = 2
    /\ out[e].players[1].joinNo = 2 /\ out[e].players[1].score = 1
    /\ out[e].players[2].joinNo = 1 /\ out[e].players[2].score = 0

\* C30: in a room whose roster is not empty, a submit_answer with a
\* questionIndex below 0 or not below the number of questions changes nothing
\* in the room table, emits nothing and raises no failure.
OutOfRangeIgnored ==
  [][\A s \in Sockets, r \in RoomIds, qi \in QIndices, ans \in Answers :
       (/\ r \in DOMAIN quizRooms
        /\ Len(quizRooms[r].players) > 0
        /\ (qi < 0 \/ qi >= Len(quizRooms[r].questions))
        /\ SubmitAnswer(s, r, qi, ans))
       => /\ quizRooms' = quizRooms
          /\ out' = <<>>
          /\ ~crashed']_vars

OutOfRangeSubmitted ==
  /\ "R1" \in DOMAIN quizRooms
  /\ Len(quizRooms["R1"].questions) = 1
  /\ Len(quizRooms["R1"].players) = 1
  /\ quizRooms["R1"].players[1].id = "s1"
  /\ quizRooms["R1"].players[1].score = 0
  /\ BagIn(<<"R1", "s1", NoIndex>>, submitted)
  /\ BagIn(<<"R1", "s1", 1>>, submitted)
  /\ ~crashed

====
